---- MODULE Spec2Model ----
(***************************************************************************)
(* Model of the article catalog: catalog/models.py (Article, ImportJob and *)
(* their managers) and catalog/views/articles.py (the article handlers).   *)
(*                                                                         *)
(* Specifications                                                          *)
(*   Spec         the article handlers, each handler one atomic step       *)
(*   ConcSpec     alter_article split at its database accesses, two        *)
(*                requests interleaving                                    *)
(*   JobSpec      the ImportJobManager operations, each one atomic step    *)
(*   JobFlowSpec  JobSpec plus the failure-recording path of the external  *)
(*                task                                                     *)
(*   ConcJobSpec  create_from_html split at enqueue / save, with the task  *)
(*                worker running in between                                *)
(*   SocialSpec   SocialData.get_social_value / title / description         *)
(*   DomainSpec   Article.domain over urls built from host labels           *)
(*   PackSpec     encode / decode of the three packed-document schemas      *)
(*   ExtraSpec    writes to social_data and article_info of one article     *)
(*   ConcCreateSpec  two article creations interleaved: for_url, then the  *)
(*                INSERT under the unique url column                       *)
(***************************************************************************)
EXTENDS Integers, Sequences, FiniteSets, TLC

VARIABLES
    articles,   \* table Article: id -> row
    now,        \* the clock read by LastModifiedDateTimeField on save
    last,       \* the last article request and its response
    jobs,       \* table ImportJob: sequence of rows, id = index
    tasks,      \* the task queue: sequence of enqueued process-articles tasks
    jlast,      \* the last ImportJobManager call and its result
    req,        \* ConcSpec: the in-flight alter_article requests
    cre,        \* ConcJobSpec: the in-flight create_from_html calls
    probe       \* the last evaluation of a model-layer property or codec call

vars == <<articles, now, last, jobs, tasks, jlast, req, cre, probe>>

----------------------------------------------------------------------------
(* Bounds *)

MaxTime == 2
MaxJobs == 2
MaxLabels == 3

----------------------------------------------------------------------------
(* Values *)

None == "<None>"
EmptyDict == <<>>

UNREAD == 1
ARCHIVED == 2
DELETED == 10
ARTICLE_STATUS == {UNREAD, ARCHIVED, DELETED}

RUNNING == 1
DONE == 2
FAILED == 3
IMPORT_JOB_STATUS == {RUNNING, DONE, FAILED}

NoTaskId == 0

RawUrls == {"http://A.com/x", "http://a.com/x", "http://b.org/"}
Titles == {"T"}
ArticleIds == 1..3
Times == 0..MaxTime
Requests == {1, 2}
Creators == {1, 2}
Htmls == {"", "<html>"}
FromUrls == {None, "", "http://a.com/x", "http://b.org/"}
StatusCodes == {200, 404, 500}

\* url_utils.canonicalize_url: host casing is normalised
canonicalize_url(url) ==
    IF url = "http://A.com/x" THEN "http://a.com/x" ELSE url

\* Python truthiness of an optional string
Truthy(v) == v # None /\ v # ""

NoArticle == [status |-> 0, updated |-> 0, url |-> None, title |-> None,
              extra |-> EmptyDict]
NoApi == [date_updated |-> 0, deleted |-> FALSE, archived |-> FALSE]
ApiObjects == [date_updated : Times, deleted : BOOLEAN, archived : BOOLEAN]

----------------------------------------------------------------------------
(* Article: model layer *)

\* save() that leaves the updated column alone
save_keeps_updated(article, t) == article

\* Model.save(): every column is written, updated is set to the clock
save(article, t) == [article EXCEPT !.updated = t]

\* for_url looking the url up as given
for_url_raw(arts, url) ==
    LET u == canonicalize_url(url)
        hit == {i \in DOMAIN arts : arts[i].url = url}
    IN  [article |-> IF hit = {} THEN 0 ELSE CHOOSE i \in hit : TRUE,
         url |-> u]

\* ArticleManger.for_url
for_url(arts, url) ==
    LET u == canonicalize_url(url)
        hit == {i \in DOMAIN arts : arts[i].url = u}
    IN  [article |-> IF hit = {} THEN 0 ELSE CHOOSE i \in hit : TRUE,
         url |-> u]

\* update_from_api_object with the two branches in the other order
update_from_api_object_archived_first(article, article_a, t) ==
    LET a1 == IF article_a.archived
                THEN [article EXCEPT !.status = ARCHIVED]
              ELSE IF article_a.deleted
                THEN [article EXCEPT !.status = DELETED]
              ELSE article
    IN  save(a1, t)

\* ArticleManger.update_from_api_object
update_from_api_object(article, article_a, t) ==
    LET a1 == IF article_a.deleted
                THEN [article EXCEPT !.status = DELETED]
              ELSE IF article_a.archived
                THEN [article EXCEPT !.status = ARCHIVED]
              ELSE article
    IN  save(a1, t)

\* the timestamp guard with >= in place of >
IsStale_or_equal(article, article_a) == article.updated >= article_a.date_updated

\* the timestamp guard of alter_article
IsStale(article, article_a) == article.updated > article_a.date_updated

\* move_article_to_status removing the row on DELETED
set_status_hard_delete(arts, id, status, t) ==
    IF status = DELETED
      THEN [i \in DOMAIN arts \ {id} |-> arts[i]]
      ELSE [arts EXCEPT ![id] = save([@ EXCEPT !.status = status], t)]

\* the assignment and save of move_article_to_status
set_status(arts, id, status, t) ==
    [arts EXCEPT ![id] = save([@ EXCEPT !.status = status], t)]

\* catalog.article.create_article_from_api_obj: look the url up, insert a new
\* UNREAD row when there is none
create_article_from_api_obj(arts, url, title, t) ==
    LET f == for_url(arts, url)
        id == Cardinality(DOMAIN arts) + 1
    IN  IF f.article # 0 THEN arts
        ELSE (id :> save([status |-> UNREAD, updated |-> t, url |-> f.url,
                          title |-> title, extra |-> EmptyDict], t)) @@ arts

----------------------------------------------------------------------------
(* Article: handlers, each one step *)

Response(op, id, a, outcome, prev, ret) ==
    [op |-> op, id |-> id, a |-> a, outcome |-> outcome, prev |-> prev,
     ret |-> ret, arg |-> None, url |-> None]

\* the lookup failure reported as a generic fault
NotFound_as_fault(op, id, a) ==
    /\ id \notin DOMAIN articles
    /\ last' = Response(op, id, a, "error", NoArticle, NoArticle)
    /\ UNCHANGED articles

NotFound(op, id, a) ==
    /\ id \notin DOMAIN articles
    /\ last' = Response(op, id, a, "missing", NoArticle, NoArticle)
    /\ UNCHANGED articles

create_article(url, title, fails) ==
    /\ IF fails
         THEN /\ last' = Response("create_article", 0, NoApi,
                                  "article-failed-create", NoArticle, NoArticle)
              /\ UNCHANGED articles
         ELSE /\ articles' = create_article_from_api_obj(articles, url, title, now)
              /\ LET f == for_url(articles, url)
                     id == IF f.article # 0 THEN f.article
                           ELSE Cardinality(DOMAIN articles) + 1
                 IN  last' = Response("create_article", id, NoApi, "ok",
                                      IF id \in DOMAIN articles
                                        THEN articles[id] ELSE NoArticle,
                                      articles'[id])
    /\ UNCHANGED <<now, jobs, tasks, jlast, req, cre, probe>>

get_article(id) ==
    /\ \/ NotFound("get_article", id, NoApi)
       \/ /\ id \in DOMAIN articles
          /\ last' = Response("get_article", id, NoApi, "ok", articles[id],
                              articles[id])
          /\ UNCHANGED articles
    /\ UNCHANGED <<now, jobs, tasks, jlast, req, cre, probe>>

alter_article(id, article_a) ==
    /\ \/ NotFound("alter_article", id, article_a)
       \/ /\ id \in DOMAIN articles
          /\ IF IsStale(articles[id], article_a)
               THEN /\ last' = Response("alter_article", id, article_a,
                                        "already-updated", articles[id],
                                        NoArticle)
                    /\ UNCHANGED articles
               ELSE /\ articles' = [articles EXCEPT ![id] =
                          update_from_api_object(@, article_a, now)]
                    /\ last' = Response("alter_article", id, article_a, "ok",
                                        articles[id], articles'[id])
    /\ UNCHANGED <<now, jobs, tasks, jlast, req, cre, probe>>

move_article_to_status(op, id, status) ==
    /\ \/ NotFound(op, id, NoApi)
       \/ /\ id \in DOMAIN articles
          /\ articles' = set_status(articles, id, status, now)
          /\ last' = Response(op, id, NoApi, "ok", articles[id],
                              IF id \in DOMAIN articles'
                                THEN articles'[id] ELSE NoArticle)
    /\ UNCHANGED <<now, jobs, tasks, jlast, req, cre, probe>>

delete_article(id) == move_article_to_status("delete_article", id, DELETED)
archive_article(id) == move_article_to_status("archive_article", id, ARCHIVED)
unarchive_article(id) == move_article_to_status("unarchive_article", id, UNREAD)

\* Article.objects.for_url(url) is called
for_url_lookup(url) ==
    /\ LET f == for_url(articles, url)
           found == IF f.article = 0 THEN NoArticle ELSE articles[f.article]
       IN  last' = [Response("for_url", f.article, NoApi, "ok", found, found)
                       EXCEPT !.arg = url, !.url = f.url]
    /\ UNCHANGED <<articles, now, jobs, tasks, jlast, req, cre, probe>>

\* time passes between requests
Tick ==
    /\ now < MaxTime
    /\ now' = now + 1
    /\ UNCHANGED <<articles, last, jobs, tasks, jlast, req, cre, probe>>

----------------------------------------------------------------------------
JobResult(op, outcome, job, html, from_url, status_code) ==
    [op |-> op, outcome |-> outcome, job |-> job, html |-> html,
     from_url |-> from_url, status_code |-> status_code, prev |-> 0]

Init ==
    /\ articles = EmptyDict
    /\ now = 0
    /\ last = Response("none", 0, NoApi, "none", NoArticle, NoArticle)
    /\ jobs = <<>>
    /\ tasks = <<>>
    /\ jlast = JobResult("none", "none", 0, "", None, 200)
    /\ req = [r \in Requests |-> [pc |-> "idle", id |-> 0, a |-> NoApi,
                                  local |-> NoArticle, outcome |-> "none"]]
    /\ cre = [c \in Creators |-> [pc |-> "idle", html |-> "",
                                  from_url |-> None, task |-> NoTaskId]]
    /\ probe = [fn |-> "none"]

Next ==
    \/ \E url \in RawUrls, title \in Titles, fails \in BOOLEAN :
          create_article(url, title, fails)
    \/ \E id \in ArticleIds : get_article(id)
    \/ \E id \in ArticleIds, a \in ApiObjects : alter_article(id, a)
    \/ \E id \in ArticleIds : delete_article(id)
    \/ \E id \in ArticleIds : archive_article(id)
    \/ \E id \in ArticleIds : unarchive_article(id)
    \/ \E url \in RawUrls : for_url_lookup(url)
    \/ Tick

Spec == Init /\ [][Next]_vars

----------------------------------------------------------------------------
(* ImportJob: model layer *)

Urls == {"http://a.com/x", "http://b.org/"}
Responses == [status_code : StatusCodes, content : Htmls]
Errors == {"parse error"}

\* SinglePack2Container: read field `key` of the document under `pack_key`
pack_get(extra, pack_key, key) ==
    IF pack_key \in DOMAIN extra /\ key \in DOMAIN extra[pack_key]
      THEN extra[pack_key][key] ELSE None

\* SinglePack2Container: write field `key` of the document under `pack_key`
pack_set(extra, pack_key, key, v) ==
    LET doc == IF pack_key \in DOMAIN extra THEN extra[pack_key] ELSE EmptyDict
    IN  (pack_key :> ((key :> v) @@ doc)) @@ extra

\* ImportJob.info: JobInfo under pack key 'j'
source_url(job) == pack_get(job.extra, "j", "s")
source_html(job) == pack_get(job.extra, "j", "h")
error_message(job) == pack_get(job.extra, "j", "e")

\* ImportJob(celery_id=...): status defaults to RUNNING, extra to an empty dict
ImportJob(celery_id) ==
    [celery_id |-> celery_id, status |-> RUNNING, extra |-> EmptyDict]

\* integration.get_pocket.process_articles_delayed: the task is put on the
\* queue; its id is its position
process_articles_delayed(queue, html) ==
    Append(queue, [html |-> html, state |-> "queued"])

\* requests' Response.raise_for_status
raises_never(resp) == FALSE

raise_for_status(resp) == resp.status_code >= 400

\* create_from_html that drops from_url
import_job_without_url(html, from_url, task_id) ==
    [ImportJob(task_id) EXCEPT !.extra = pack_set(@, "j", "h", html)]

\* the row create_from_html builds and saves
import_job_from_html(html, from_url, task_id) ==
    LET j1 == [ImportJob(task_id) EXCEPT !.extra = pack_set(@, "j", "h", html)]
    IN  IF Truthy(from_url)
          THEN [j1 EXCEPT !.extra = pack_set(@, "j", "s", from_url)]
          ELSE j1

\* close_job without its assignment
closed_noop(job) == job

\* close_job assigning the wrong status
closed_as_failed(job) == [job EXCEPT !.status = FAILED]

\* the assignment of close_job
closed(job) == [job EXCEPT !.status = DONE]

\* ImportJob.done / failed / running
done(job) == job.status = DONE
failed(job) == job.status = FAILED
running(job) == job.status = RUNNING

\* the failure-recording path of the external task: RUNNING -> FAILED with
\* the error message recorded in JobInfo
failed_job(job, msg) ==
    [job EXCEPT !.status = FAILED, !.extra = pack_set(@, "j", "e", msg)]

----------------------------------------------------------------------------
(* ImportJobManager: each operation one step *)

FromHtml(op, html, from_url, status_code) ==
    /\ Len(jobs) < MaxJobs
    /\ tasks' = process_articles_delayed(tasks, html)
    /\ jobs' = Append(jobs, import_job_from_html(html, from_url, Len(tasks')))
    /\ jlast' = JobResult(op, "ok", Len(jobs'), html, from_url, status_code)

create_from_html(html, from_url) ==
    /\ FromHtml("create_from_html", html, from_url, 200)
    /\ UNCHANGED <<articles, now, last, req, cre, probe>>

FromUrl(op, url, resp) ==
    IF raise_for_status(resp)
      THEN /\ jlast' = JobResult(op, "HTTPError", 0, "", url, resp.status_code)
           /\ UNCHANGED <<jobs, tasks>>
      ELSE FromHtml(op, resp.content, url, resp.status_code)

create_from_url(url, resp) ==
    /\ FromUrl("create_from_url", url, resp)
    /\ UNCHANGED <<articles, now, last, req, cre, probe>>

create_from_api_object(api_obj, resp) ==
    /\ FromUrl("create_from_api_object", api_obj.url, resp)
    /\ UNCHANGED <<articles, now, last, req, cre, probe>>

close_job(j) ==
    /\ j \in DOMAIN jobs
    /\ jobs' = [jobs EXCEPT ![j] = closed(@)]
    /\ jlast' = [JobResult("close_job", "ok", j, "", None, 200)
                    EXCEPT !.prev = jobs[j].status]
    /\ UNCHANGED <<articles, now, last, tasks, req, cre, probe>>

fail_job(j, msg) ==
    /\ j \in DOMAIN jobs
    /\ jobs[j].status = RUNNING
    /\ jobs' = [jobs EXCEPT ![j] = failed_job(@, msg)]
    /\ jlast' = JobResult("fail_job", "ok", j, "", None, 200)
    /\ UNCHANGED <<articles, now, last, tasks, req, cre, probe>>

\* job.done(), job.failed() or job.running() is evaluated
job_predicate(j, fn) ==
    /\ j \in DOMAIN jobs
    /\ LET b == CASE fn = "done" -> done(jobs[j])
                  [] fn = "failed" -> failed(jobs[j])
                  [] fn = "running" -> running(jobs[j])
       IN  jlast' = [JobResult(fn, IF b THEN "True" ELSE "False", j, "", None,
                               200) EXCEPT !.prev = jobs[j].status]
    /\ UNCHANGED <<articles, now, last, jobs, tasks, req, cre, probe>>

JobNext ==
    \/ \E html \in Htmls, from_url \in FromUrls : create_from_html(html, from_url)
    \/ \E url \in Urls, resp \in Responses : create_from_url(url, resp)
    \/ \E url \in Urls, resp \in Responses :
          create_from_api_object([url |-> url], resp)
    \/ \E j \in 1..MaxJobs : close_job(j)
    \/ \E j \in 1..MaxJobs, fn \in {"done", "failed", "running"} :
          job_predicate(j, fn)

JobSpec == Init /\ [][JobNext]_vars

JobFlowNext ==
    \/ JobNext
    \/ \E j \in 1..MaxJobs, msg \in Errors : fail_job(j, msg)

JobFlowSpec == Init /\ [][JobFlowNext]_vars

----------------------------------------------------------------------------
(* create_from_html and the task worker, interleaved *)

\* line 195: the task is enqueued, the job row does not exist yet
create_enqueue(c, html, from_url) ==
    /\ cre[c].pc = "idle"
    /\ Len(tasks) < MaxJobs
    /\ tasks' = process_articles_delayed(tasks, html)
    /\ cre' = [cre EXCEPT ![c] = [pc |-> "enqueued", html |-> html,
                                  from_url |-> from_url, task |-> Len(tasks')]]
    /\ UNCHANGED <<articles, now, last, jobs, jlast, req, probe>>

\* lines 197-205: the row is built and saved
create_save(c) ==
    /\ cre[c].pc = "enqueued"
    /\ jobs' = Append(jobs, import_job_from_html(cre[c].html, cre[c].from_url,
                                                 cre[c].task))
    /\ jlast' = JobResult("create_from_html", "ok", Len(jobs'), cre[c].html,
                          cre[c].from_url, 200)
    /\ cre' = [cre EXCEPT ![c] = [pc |-> "idle", html |-> "",
                                  from_url |-> None, task |-> NoTaskId]]
    /\ UNCHANGED <<articles, now, last, tasks, req, probe>>

\* a worker takes the task off the queue and starts processing
task_start(t) ==
    /\ t \in DOMAIN tasks
    /\ tasks[t].state = "queued"
    /\ tasks' = [tasks EXCEPT ![t].state = "started"]
    /\ UNCHANGED <<articles, now, last, jobs, jlast, req, cre, probe>>

\* the task completes and closes its job, when it finds one
task_finish(t) ==
    /\ t \in DOMAIN tasks
    /\ tasks[t].state = "started"
    /\ tasks' = [tasks EXCEPT ![t].state = "finished"]
    /\ jobs' = [j \in DOMAIN jobs |->
                  IF jobs[j].celery_id = t THEN closed(jobs[j]) ELSE jobs[j]]
    /\ UNCHANGED <<articles, now, last, jlast, req, cre, probe>>

ConcJobNext ==
    \/ \E c \in Creators, html \in Htmls, from_url \in FromUrls :
          create_enqueue(c, html, from_url)
    \/ \E c \in Creators : create_save(c)
    \/ \E t \in 1..MaxJobs : task_start(t)
    \/ \E t \in 1..MaxJobs : task_finish(t)

ConcJobSpec == Init /\ [][ConcJobNext]_vars

----------------------------------------------------------------------------
(* alter_article, two requests interleaved *)

\* the requests of ConcSpec all address the article of this url
ConcUrls == {"http://a.com/x"}

Idle(outcome) ==
    [pc |-> "idle", id |-> 0, a |-> NoApi, local |-> NoArticle,
     outcome |-> outcome]

\* lines 58-68: the row is read and the timestamp guard is evaluated on it
alter_begin(r, id, article_a) ==
    /\ req[r].pc = "idle"
    /\ IF id \notin DOMAIN articles
         THEN req' = [req EXCEPT ![r] = Idle("missing")]
         ELSE IF IsStale(articles[id], article_a)
           THEN req' = [req EXCEPT ![r] = Idle("already-updated")]
           ELSE req' = [req EXCEPT ![r] = [pc |-> "checked", id |-> id,
                            a |-> article_a, local |-> articles[id],
                            outcome |-> "none"]]
    /\ UNCHANGED <<articles, now, last, jobs, tasks, jlast, cre, probe>>

\* line 70: update_from_api_object on the instance read earlier; save writes
\* every column of it
alter_save(r) ==
    /\ req[r].pc = "checked"
    /\ articles' = [articles EXCEPT ![req[r].id] =
                       update_from_api_object(req[r].local, req[r].a, now)]
    /\ req' = [req EXCEPT ![r] = Idle("ok")]
    /\ UNCHANGED <<now, last, jobs, tasks, jlast, cre, probe>>

ConcNext ==
    \/ \E url \in ConcUrls, title \in Titles : create_article(url, title, FALSE)
    \/ \E r \in Requests, id \in ArticleIds, a \in ApiObjects :
          alter_begin(r, id, a)
    \/ \E r \in Requests : alter_save(r)
    \/ Tick

ConcSpec == Init /\ [][ConcNext]_vars

----------------------------------------------------------------------------
(* article creation, two attempts interleaved *)

\* the url column without its unique constraint
unique_ignored(arts, url) == FALSE

\* Article.url is unique=True: an INSERT of a url already stored is refused
unique_violation(arts, url) == \E i \in DOMAIN arts : arts[i].url = url

\* the attempt calls for_url; with no article found it builds the new row
create_lookup(r, url, title) ==
    /\ req[r].pc = "idle"
    /\ LET f == for_url(articles, url)
       IN  IF f.article # 0
             THEN req' = [req EXCEPT ![r] = Idle("ok")]
             ELSE req' = [req EXCEPT ![r] =
                     [pc |-> "absent", id |-> 0, a |-> NoApi,
                      local |-> [status |-> UNREAD, updated |-> 0,
                                 url |-> f.url, title |-> title,
                                 extra |-> EmptyDict],
                      outcome |-> "none"]]
    /\ UNCHANGED <<articles, now, last, jobs, tasks, jlast, cre, probe>>

\* the attempt saves its new row; the database enforces the unique url
create_insert(r) ==
    /\ req[r].pc = "absent"
    /\ IF unique_violation(articles, req[r].local.url)
         THEN /\ req' = [req EXCEPT ![r] = Idle("IntegrityError")]
              /\ UNCHANGED articles
         ELSE /\ articles' = ((Cardinality(DOMAIN articles) + 1) :>
                                 save(req[r].local, now)) @@ articles
              /\ req' = [req EXCEPT ![r] = Idle("created")]
    /\ UNCHANGED <<now, last, jobs, tasks, jlast, cre, probe>>

ConcCreateNext ==
    \/ \E r \in Requests, url \in RawUrls, title \in Titles :
          create_lookup(r, url, title)
    \/ \E r \in Requests : create_insert(r)
    \/ Tick

ConcCreateSpec == Init /\ [][ConcCreateNext]_vars

----------------------------------------------------------------------------
(* SocialData.get_social_value, title, description *)

\* an optional Python dict: None, or a mapping d
NoneDict == [null |-> TRUE, d |-> EmptyDict]
Dict(d) == [null |-> FALSE, d |-> d]

SocialKeys == {"title", "description"}
LookupKeys == {"title", "description", "image"}
OgValues == {"", "OG"}
TwValues == {"", "TW"}
DictsOver(vals) ==
    {NoneDict} \cup
    {Dict(d) : d \in UNION {[K -> vals] : K \in SUBSET SocialKeys}}
SocialDatas == [open_graph : DictsOver(OgValues), twitter : DictsOver(TwValues)]

\* truthiness of an optional dict: None and {} are falsy
DictTruthy(m) == ~m.null /\ DOMAIN m.d # {}

\* dict.get(key)
dict_get(m, key) == IF key \in DOMAIN m.d THEN m.d[key] ELSE None

\* get_social_value consulting twitter first
get_social_value_twitter_first(sd, key) ==
    IF DictTruthy(sd.twitter) /\ Truthy(dict_get(sd.twitter, key))
      THEN sd.twitter.d[key]
    ELSE IF DictTruthy(sd.open_graph) /\ Truthy(dict_get(sd.open_graph, key))
      THEN sd.open_graph.d[key]
    ELSE None

\* SocialData.get_social_value
get_social_value(sd, key) ==
    IF DictTruthy(sd.open_graph) /\ Truthy(dict_get(sd.open_graph, key))
      THEN sd.open_graph.d[key]
    ELSE IF DictTruthy(sd.twitter) /\ Truthy(dict_get(sd.twitter, key))
      THEN sd.twitter.d[key]
    ELSE None

\* SocialData.description, SocialData.title
description(sd) == get_social_value(sd, "description")
title(sd) == get_social_value(sd, "title")

social_value(sd, key) ==
    /\ probe' = [fn |-> "get_social_value", sd |-> sd, key |-> key,
                 result |-> get_social_value(sd, key)]
    /\ UNCHANGED <<articles, now, last, jobs, tasks, jlast, req, cre>>

social_title(sd) ==
    /\ probe' = [fn |-> "title", sd |-> sd, key |-> "title",
                 result |-> title(sd)]
    /\ UNCHANGED <<articles, now, last, jobs, tasks, jlast, req, cre>>

social_description(sd) ==
    /\ probe' = [fn |-> "description", sd |-> sd, key |-> "description",
                 result |-> description(sd)]
    /\ UNCHANGED <<articles, now, last, jobs, tasks, jlast, req, cre>>

SocialNext ==
    \/ \E sd \in SocialDatas, key \in LookupKeys : social_value(sd, key)
    \/ \E sd \in SocialDatas : social_title(sd)
    \/ \E sd \in SocialDatas : social_description(sd)

SocialSpec == Init /\ [][SocialNext]_vars

----------------------------------------------------------------------------
(* Article.domain; strings are sequences of characters *)

WWW_DOT == <<"w", "w", "w", ".">>
HostLabels == {<<"w", "w", "w">>, <<"w", "w", "w", "w">>, <<"a">>,
               <<"c", "o", "m">>}
Schemes == {<<"h", "t", "t", "p", ":">>, <<"h", "t", "t", "p", "s", ":">>}
Paths == {<<>>, <<"/", "x">>}
LabelSeqs == UNION {[1..n -> HostLabels] : n \in 1..MaxLabels}

\* the labels joined with dots
RECURSIVE JoinLabels(_)
JoinLabels(ls) ==
    IF Len(ls) = 1 THEN ls[1]
    ELSE ls[1] \o <<".">> \o JoinLabels(Tail(ls))

\* the longest prefix of s without a character of stop
RECURSIVE UpTo(_, _)
UpTo(s, stop) ==
    IF s = <<>> \/ s[1] \in stop THEN <<>>
    ELSE <<s[1]>> \o UpTo(Tail(s), stop)

\* what follows the first occurrence of character c in s
RECURSIVE After(_, _)
After(s, c) ==
    IF s = <<>> THEN <<>>
    ELSE IF s[1] = c THEN Tail(s)
    ELSE After(Tail(s), c)

\* urlparse(url).netloc: after "scheme:", the text between "//" and the next
\* "/", "?" or "#"
netloc(url) ==
    LET rest == After(url, ":")
    IN  IF Len(rest) >= 2 /\ SubSeq(rest, 1, 2) = <<"/", "/">>
          THEN UpTo(SubSeq(rest, 3, Len(rest)), {"/", "?", "#"})
          ELSE <<>>

\* str.replace(old, new): every non-overlapping occurrence, left to right
RECURSIVE replace(_, _, _)
replace(s, old, new) ==
    IF Len(s) < Len(old) THEN s
    ELSE IF SubSeq(s, 1, Len(old)) = old
      THEN new \o replace(SubSeq(s, Len(old) + 1, Len(s)), old, new)
    ELSE <<s[1]>> \o replace(Tail(s), old, new)

\* Article.domain
domain(url) == replace(netloc(url), WWW_DOT, <<>>)

article_domain(scheme, labels, path) ==
    /\ LET host == JoinLabels(labels)
           url == scheme \o <<"/", "/">> \o host \o path
       IN  probe' = [fn |-> "domain", url |-> url, host |-> host,
                     result |-> domain(url)]
    /\ UNCHANGED <<articles, now, last, jobs, tasks, jlast, req, cre>>

DomainNext ==
    \E scheme \in Schemes, labels \in LabelSeqs, path \in Paths :
        article_domain(scheme, labels, path)

DomainSpec == Init /\ [][DomainNext]_vars

----------------------------------------------------------------------------
(* Packed documents: the schemas and their codec *)

EMPTY_DICT == "{}"            \* what the default factory dict() returns
PackValues == {None, EMPTY_DICT, "v1", "v2"}

\* SocialData: field -> key and default
SocialDataSchema ==
    [open_graph |-> [key |-> "o", default |-> EMPTY_DICT],
     twitter |-> [key |-> "t", default |-> EMPTY_DICT]]

\* ArticleInfo with full_text_html sharing the key of full_html
ArticleInfoSchema_key_clash ==
    [author |-> [key |-> "a", default |-> None],
     full_html |-> [key |-> "h", default |-> None],
     full_text_html |-> [key |-> "h", default |-> None]]

\* ArticleInfo: field -> key and default
ArticleInfoSchema ==
    [author |-> [key |-> "a", default |-> None],
     full_html |-> [key |-> "h", default |-> None],
     full_text_html |-> [key |-> "t", default |-> None]]

\* JobInfo: field -> key and default
JobInfoSchema ==
    [source_url |-> [key |-> "s", default |-> None],
     source_html |-> [key |-> "h", default |-> None],
     error_message |-> [key |-> "e", default |-> None]]

PackSchemas == [SocialData |-> SocialDataSchema,
                ArticleInfo |-> ArticleInfoSchema,
                JobInfo |-> JobInfoSchema]

\* Pack2 encoding: the fields that are not null, under their short keys
encode(schema, doc) ==
    LET set == {f \in DOMAIN schema : doc[f] # None}
    IN  [k \in {schema[f].key : f \in set} |->
            doc[CHOOSE f \in set : schema[f].key = k]]

\* Pack2 decoding: a key that is absent gives the default, or null
decode(schema, enc) ==
    [f \in DOMAIN schema |->
        IF schema[f].key \in DOMAIN enc THEN enc[schema[f].key]
        ELSE schema[f].default]

round_trip(name, doc) ==
    /\ probe' = [fn |-> "round_trip", schema |-> name, doc |-> doc,
                 encoded |-> encode(PackSchemas[name], doc),
                 decoded |-> decode(PackSchemas[name],
                                    encode(PackSchemas[name], doc))]
    /\ UNCHANGED <<articles, now, last, jobs, tasks, jlast, req, cre>>

PackNext ==
    \E name \in DOMAIN PackSchemas :
        \E doc \in [DOMAIN PackSchemas[name] -> PackValues] :
            round_trip(name, doc)

PackSpec == Init /\ [][PackNext]_vars

----------------------------------------------------------------------------
(* Article.social_data and Article.article_info in one extra bag *)

SocialDataKeys == {"o", "t"}
ArticleInfoKeys == {"a", "h", "t"}
WrittenValues == {"v1", "v2"}

\* Article.social_data: SocialData under pack key 's'
social_data_get(extra, key) == pack_get(extra, "s", key)
social_data_set(extra, key, v) == pack_set(extra, "s", key, v)

\* article_info written under the pack key of social_data
article_info_set_under_s(extra, key, v) == pack_set(extra, "s", key, v)

\* Article.article_info: ArticleInfo under pack key 'a'
article_info_get(extra, key) == pack_get(extra, "a", key)
article_info_set(extra, key, v) == pack_set(extra, "a", key, v)

\* the extra bag of the article being written
CurExtra ==
    IF probe.fn \in {"social_data", "article_info"} THEN probe.extra
    ELSE EmptyDict

\* article.social_data.<field> = v
write_social_data(key, v) ==
    /\ probe' = [fn |-> "social_data", key |-> key, value |-> v,
                 extra |-> social_data_set(CurExtra, key, v)]
    /\ UNCHANGED <<articles, now, last, jobs, tasks, jlast, req, cre>>

\* article.article_info.<field> = v
write_article_info(key, v) ==
    /\ probe' = [fn |-> "article_info", key |-> key, value |-> v,
                 extra |-> article_info_set(CurExtra, key, v)]
    /\ UNCHANGED <<articles, now, last, jobs, tasks, jlast, req, cre>>

ExtraNext ==
    \/ \E key \in SocialDataKeys, v \in WrittenValues :
          write_social_data(key, v)
    \/ \E key \in ArticleInfoKeys, v \in WrittenValues :
          write_article_info(key, v)

ExtraSpec == Init /\ [][ExtraNext]_vars

----------------------------------------------------------------------------
(* Claims on the article handlers (Spec) *)

Applied == last.op = "alter_article" /\ last.outcome = "ok"

\* the status update_from_api_object is to leave, given the prior status
MergedStatus(prior, a) ==
    IF a.deleted THEN DELETED ELSE IF a.archived THEN ARCHIVED ELSE prior

\* C1: update_from_api_object leaves the status DELETED when the incoming
\* deleted is true (also with archived true), ARCHIVED when archived is true
\* and deleted false, the prior status when both are false; it never sets
\* UNREAD.
C1_StatusMerge ==
    Applied =>
        /\ last.prev.status \in ARTICLE_STATUS
        /\ articles[last.id].status = MergedStatus(last.prev.status, last.a)
        /\ last.ret.status = articles[last.id].status
        /\ (articles[last.id].status = UNREAD => last.prev.status = UNREAD)

C1_Witness ==
    /\ Applied
    /\ last.a.deleted /\ last.a.archived
    /\ last.prev.status = ARCHIVED
    /\ articles[last.id].status = DELETED

\* C2: an alter_article on an existing article whose stored updated is
\* strictly greater than the request's date_updated ends with
\* 'already-updated' and leaves the stored article as it was; with an equal or
\* older stored timestamp the request is applied.
C2_StaleRejected ==
    (last.op = "alter_article" /\ last.outcome # "missing") =>
        IF last.prev.updated > last.a.date_updated
          THEN /\ last.outcome = "already-updated"
               /\ articles[last.id] = last.prev
          ELSE /\ last.outcome = "ok"
               /\ articles[last.id] = last.ret
               /\ articles[last.id].status =
                      MergedStatus(last.prev.status, last.a)
               /\ articles[last.id].updated >= last.prev.updated

C2_Witness ==
    /\ last.op = "alter_article"
    /\ last.outcome = "already-updated"
    /\ last.a.deleted
    /\ last.prev.status = UNREAD
    /\ articles[last.id].status = UNREAD

\* C9: once an article is DELETED, no exposed operation changes its status to
\* UNREAD or ARCHIVED.
C9_DeletedIsTerminal ==
    [][\A id \in DOMAIN articles :
          articles[id].status = DELETED =>
              (id \in DOMAIN articles' /\ articles'[id].status = DELETED)]_vars

\* C10: the set of stored article ids never shrinks, and delete_article only
\* sets the status to DELETED: the row, with its url, title and extra bag,
\* stays retrievable.
C10_SoftDelete ==
    [][/\ DOMAIN articles \subseteq DOMAIN articles'
       /\ (last'.op = "delete_article" /\ last'.outcome = "ok") =>
             /\ last'.id \in DOMAIN articles'
             /\ articles'[last'.id].status = DELETED
             /\ articles'[last'.id].url = last'.prev.url
             /\ articles'[last'.id].title = last'.prev.title
             /\ articles'[last'.id].extra = last'.prev.extra]_vars

C10_Witness ==
    /\ last.op = "delete_article" /\ last.outcome = "ok"
    /\ last.prev.status = ARCHIVED
    /\ Cardinality(DOMAIN articles) = 2
    /\ articles[last.id].status = DELETED
    /\ articles[last.id].url = last.prev.url

----------------------------------------------------------------------------
(* Claims on concurrent alter_article requests (ConcSpec) *)

\* C8: in every interleaving of alter_article requests on one article, a
\* request whose date_updated is strictly older than the stored updated
\* timestamp at the moment its write is saved is rejected and does not
\* overwrite the stored row.
C8_NoStaleWrite ==
    [][\A r \in Requests :
          (req[r].pc = "checked" /\ req'[r].outcome = "ok") =>
              req[r].a.date_updated >= articles[req[r].id].updated]_vars

----------------------------------------------------------------------------
(* Claims on the import jobs (JobSpec, JobFlowSpec, ConcJobSpec) *)

Created == jlast.outcome = "ok" /\ jlast.op \in
               {"create_from_html", "create_from_url", "create_from_api_object"}
Fetching == {"create_from_url", "create_from_api_object"}

\* C3: a job starts RUNNING, and once its status is DONE or FAILED no
\* operation changes it again.
C3_TerminalStatus ==
    [][/\ \A j \in DOMAIN jobs :
             jobs[j].status \in {DONE, FAILED} =>
                 (j \in DOMAIN jobs' /\ jobs'[j].status = jobs[j].status)
       /\ \A j \in DOMAIN jobs' \ DOMAIN jobs : jobs'[j].status = RUNNING]_vars

\* what every created job has, whatever from_url was
CreatedJobShape ==
    /\ jlast.job = Len(jobs)
    /\ jobs[jlast.job].status = RUNNING
    /\ jobs[jlast.job].celery_id # NoTaskId
    /\ jobs[jlast.job].celery_id = Len(tasks)
    /\ tasks[jobs[jlast.job].celery_id].html = jlast.html
    /\ source_html(jobs[jlast.job]) = jlast.html
    /\ error_message(jobs[jlast.job]) = None

\* C4 as stated: source_url equals from_url for every from_url that is given,
\* and is unset when none is given.
C4_SourceUrlIsFromUrl ==
    Created => /\ CreatedJobShape
               /\ source_url(jobs[jlast.job]) = jlast.from_url

\* C4: create_from_html returns a newly persisted RUNNING job carrying the id
\* of the enqueued task, with source_html = html, and source_url = from_url
\* for every non-empty from_url; with from_url absent or empty source_url
\* stays unset.
C4_CreatedJob ==
    Created => /\ CreatedJobShape
               /\ source_url(jobs[jlast.job]) =
                      IF Truthy(jlast.from_url) THEN jlast.from_url ELSE None

C4_Witness ==
    /\ jlast.op = "create_from_html" /\ jlast.outcome = "ok"
    /\ jlast.from_url = "http://a.com/x"
    /\ jlast.html = "<html>"
    /\ Len(jobs) = 2
    /\ source_url(jobs[2]) = "http://a.com/x"
    /\ source_html(jobs[2]) = "<html>"

\* C5: a non-success HTTP status in create_from_url / create_from_api_object
\* aborts the creation with the fetch error; the jobs and the enqueued tasks
\* are as before the call.
C5_FetchFailureAborts ==
    [][(jlast'.op \in Fetching /\ jlast'.status_code # 200) =>
          /\ jlast'.outcome = "HTTPError"
          /\ jobs' = jobs
          /\ tasks' = tasks]_vars

C5_Witness ==
    /\ jlast.op = "create_from_api_object"
    /\ jlast.status_code = 500
    /\ jlast.outcome = "HTTPError"
    /\ Len(jobs) = 1 /\ Len(tasks) = 1

\* C6: a fetch failure during create_from_url leaves a recorded job with
\* status FAILED and error_message set.
C6_FetchFailureRecorded ==
    (jlast.op \in Fetching /\ jlast.outcome = "HTTPError") =>
        \E j \in DOMAIN jobs :
            /\ jobs[j].status = FAILED
            /\ error_message(jobs[j]) # None
            /\ source_url(jobs[j]) = jlast.from_url

\* C7: the job row exists, RUNNING with its task id, before the enqueued task
\* starts its work.
C7_JobVisibleBeforeTask ==
    \A t \in DOMAIN tasks :
        tasks[t].state # "queued" =>
            \E j \in DOMAIN jobs : jobs[j].celery_id = t

\* exactly one of three
ExactlyOne(a, b, c) ==
    \/ a /\ ~b /\ ~c
    \/ ~a /\ b /\ ~c
    \/ ~a /\ ~b /\ c

\* the status a predicate of ImportJob tests for
TestedStatus(fn) ==
    CASE fn = "done" -> DONE
      [] fn = "failed" -> FAILED
      [] fn = "running" -> RUNNING

\* C11: close_job on a RUNNING job persists DONE, after which done() is true
\* and running() and failed() are false; exactly one of the three predicates
\* holds for every job in every state, and evaluating them changes no state.
C11_ClosePredicates ==
    [][/\ \A j \in DOMAIN jobs' :
             ExactlyOne(done(jobs'[j]), failed(jobs'[j]), running(jobs'[j]))
       /\ (jlast'.op = "close_job" /\ jlast'.prev = RUNNING) =>
             /\ jobs'[jlast'.job].status = DONE
             /\ done(jobs'[jlast'.job])
             /\ ~running(jobs'[jlast'.job])
             /\ ~failed(jobs'[jlast'.job])
       /\ (jlast'.op \in {"done", "failed", "running"}) =>
             /\ jobs' = jobs
             /\ tasks' = tasks
             /\ (jlast'.outcome = "True") =
                   (jobs[jlast'.job].status = TestedStatus(jlast'.op))]_vars

C11_Witness ==
    /\ jlast.op = "close_job"
    /\ jlast.prev = RUNNING
    /\ Len(jobs) = 2
    /\ done(jobs[jlast.job])
    /\ \E j \in DOMAIN jobs : running(jobs[j])

\* C19: over any sequence of create_from_api_object, create_from_url,
\* create_from_html and close_job no job is FAILED and no error_message is
\* set: every job is RUNNING or DONE.
C19_NeverFailed ==
    \A j \in DOMAIN jobs :
        /\ jobs[j].status \in {RUNNING, DONE}
        /\ ~failed(jobs[j])
        /\ error_message(jobs[j]) = None

C19_Witness ==
    /\ jlast.op \in Fetching /\ jlast.outcome = "HTTPError"
    /\ Len(jobs) = 2
    /\ jobs[1].status = DONE
    /\ jobs[2].status = RUNNING

----------------------------------------------------------------------------
(* Further claims on the article handlers (Spec) *)

ByIdOps == {"get_article", "alter_article", "delete_article",
            "archive_article", "unarchive_article"}

\* C12: for an article id that does not exist, get_article, alter_article,
\* delete_article, archive_article and unarchive_article each end with
\* 'missing', create no article and leave every stored article unchanged.
C12_MissingId ==
    [][(last'.op \in ByIdOps /\ last'.id \notin DOMAIN articles) =>
          /\ last'.outcome = "missing"
          /\ last'.ret = NoArticle
          /\ articles' = articles]_vars

C12_Witness ==
    /\ last.op = "alter_article"
    /\ last.outcome = "missing"
    /\ last.a.deleted
    /\ last.id \notin DOMAIN articles
    /\ Cardinality(DOMAIN articles) = 2

\* C13: for_url never raises: it returns (article, canonical_url) with
\* canonical_url the canonicalization of url and article the stored article
\* of that url when there is one, null otherwise, and changes no stored state.
C13_ForUrl ==
    [][last'.op = "for_url" =>
          /\ last'.outcome = "ok"
          /\ articles' = articles
          /\ last'.url = canonicalize_url(last'.arg)
          /\ LET m == {i \in DOMAIN articles : articles[i].url = last'.url}
             IN  IF m = {}
                   THEN last'.id = 0 /\ last'.ret = NoArticle
                   ELSE last'.id \in m /\ last'.ret = articles[last'.id]]_vars

C13_Witness ==
    /\ last.op = "for_url"
    /\ last.outcome = "ok"
    /\ last.arg = "http://A.com/x"
    /\ last.url = "http://a.com/x"
    /\ last.id = 0 /\ last.ret = NoArticle
    /\ Cardinality(DOMAIN articles) = 1

WriteOps == {"alter_article", "delete_article", "archive_article",
             "unarchive_article"}
MoveOps == {"delete_article", "archive_article", "unarchive_article"}

\* no row disappears and no updated timestamp decreases in a step
UpdatedNeverDecreases ==
    \A id \in DOMAIN articles :
        /\ id \in DOMAIN articles'
        /\ articles'[id].updated >= articles[id].updated

\* this step is a handler whose write was applied
AppliedWrite == now' = now /\ last'.op \in WriteOps /\ last'.outcome = "ok"

\* C20 as stated: updated never decreases and advances on every applied
\* write.
C20_AlwaysAdvances ==
    [][/\ UpdatedNeverDecreases
       /\ AppliedWrite =>
             articles'[last'.id].updated > articles[last'.id].updated]_vars

\* C20: updated never decreases and every applied write (an accepted
\* alter_article, also with both flags false, and every delete_article,
\* archive_article, unarchive_article) stamps it with the clock at the save,
\* so it advances exactly when the clock has advanced since the previous
\* save; an alter_article whose date_updated is strictly older than the
\* stored timestamp is rejected; the three status handlers are applied
\* without a timestamp check.
C20_SaveStampsClock ==
    [][/\ UpdatedNeverDecreases
       /\ AppliedWrite =>
             /\ articles'[last'.id].updated = now
             /\ (now > articles[last'.id].updated) =
                   (articles'[last'.id].updated > articles[last'.id].updated)
       /\ (now' = now /\ last'.op = "alter_article"
             /\ last'.id \in DOMAIN articles
             /\ last'.a.date_updated < articles[last'.id].updated) =>
             last'.outcome = "already-updated"
       /\ (now' = now /\ last'.op \in MoveOps
             /\ last'.id \in DOMAIN articles) =>
             last'.outcome = "ok"]_vars

C20_Witness ==
    /\ last.op = "alter_article" /\ last.outcome = "ok"
    /\ ~last.a.deleted /\ ~last.a.archived
    /\ articles[last.id].status = last.prev.status
    /\ articles[last.id].updated > last.prev.updated

----------------------------------------------------------------------------
(* Claims on concurrent article creation (ConcCreateSpec) *)

\* C14: at most one Article exists per canonicalized url in every state, also
\* when two creation attempts for one url both see for_url return no article
\* before either one saves.
C14_OneArticlePerUrl ==
    \A i \in DOMAIN articles : \A j \in DOMAIN articles :
        canonicalize_url(articles[i].url) = canonicalize_url(articles[j].url)
            => i = j

C14_Witness ==
    /\ req[1].outcome = "created"
    /\ req[2].outcome = "IntegrityError"
    /\ Cardinality(DOMAIN articles) = 1

----------------------------------------------------------------------------
(* Claims on SocialData (SocialSpec) *)

\* the value a mapping holds for a key; null for a null mapping or no entry
ValueAt(m, key) == IF ~m.null /\ key \in DOMAIN m.d THEN m.d[key] ELSE None

\* C15: get_social_value(k) is open_graph[k] when that is truthy, otherwise
\* twitter[k] when that is truthy, otherwise null; title and description are
\* get_social_value('title') and get_social_value('description').
C15_SocialValue ==
    probe.fn \in {"get_social_value", "title", "description"} =>
        /\ probe.fn # "get_social_value" => probe.key = probe.fn
        /\ LET og == ValueAt(probe.sd.open_graph, probe.key)
               tw == ValueAt(probe.sd.twitter, probe.key)
           IN  probe.result = IF og # None /\ og # "" THEN og
                              ELSE IF tw # None /\ tw # "" THEN tw
                              ELSE None

C15_Witness ==
    /\ probe.fn = "title"
    /\ ~probe.sd.open_graph.null
    /\ "title" \in DOMAIN probe.sd.open_graph.d
    /\ probe.sd.open_graph.d["title"] = ""
    /\ ValueAt(probe.sd.twitter, "title") = "TW"
    /\ probe.result = "TW"

----------------------------------------------------------------------------
(* Claims on Article.domain (DomainSpec) *)

\* C16: Article.domain is the host with only a leading "www." removed; a
\* "www." elsewhere in the host is kept and a host without a leading "www."
\* is returned unchanged.
C16_LeadingWwwOnly ==
    probe.fn = "domain" =>
        probe.result =
            IF Len(probe.host) >= 4 /\ SubSeq(probe.host, 1, 4) = WWW_DOT
              THEN SubSeq(probe.host, 5, Len(probe.host))
              ELSE probe.host

----------------------------------------------------------------------------
(* Claims on the packed documents (PackSpec, ExtraSpec) *)

\* C17: for SocialData, ArticleInfo and JobInfo and every assignment of the
\* fields, decoding the encoded document reproduces every set field, and a
\* field that was not set decodes to null or its default.
C17_RoundTrip ==
    probe.fn = "round_trip" =>
        /\ DOMAIN probe.decoded = DOMAIN probe.doc
        /\ \A f \in DOMAIN probe.doc :
              IF probe.doc[f] # None
                THEN probe.decoded[f] = probe.doc[f]
                ELSE probe.decoded[f] =
                        IF probe.schema = "SocialData" THEN EMPTY_DICT
                        ELSE None

C17_Witness ==
    /\ probe.fn = "round_trip"
    /\ probe.schema = "ArticleInfo"
    /\ probe.doc.author = None
    /\ probe.doc.full_html = "v1"
    /\ probe.doc.full_text_html = "v2"
    /\ probe.decoded.full_html = "v1"
    /\ probe.decoded.full_text_html = "v2"
    /\ probe.decoded.author = None

\* C18: SocialData lives only under 's' and ArticleInfo only under 'a':
\* writing a field of social_data leaves every field of article_info
\* unchanged and the other way round, over any sequence of writes.
C18_NoInterference ==
    [][/\ probe'.fn = "social_data" =>
             /\ social_data_get(probe'.extra, probe'.key) = probe'.value
             /\ \A k \in ArticleInfoKeys :
                   article_info_get(probe'.extra, k) =
                       article_info_get(CurExtra, k)
             /\ \A k \in SocialDataKeys \ {probe'.key} :
                   social_data_get(probe'.extra, k) =
                       social_data_get(CurExtra, k)
       /\ probe'.fn = "article_info" =>
             /\ article_info_get(probe'.extra, probe'.key) = probe'.value
             /\ \A k \in SocialDataKeys :
                   social_data_get(probe'.extra, k) =
                       social_data_get(CurExtra, k)
             /\ \A k \in ArticleInfoKeys \ {probe'.key} :
                   article_info_get(probe'.extra, k) =
                       article_info_get(CurExtra, k)
       /\ DOMAIN probe'.extra \subseteq {"s", "a"}]_vars

C18_Witness ==
    /\ probe.fn = "social_data"
    /\ probe.key = "t" /\ probe.value = "v2"
    /\ social_data_get(probe.extra, "t") = "v2"
    /\ article_info_get(probe.extra, "t") = "v1"
    /\ article_info_get(probe.extra, "h") = "v1"

====
